---- MODULE Spec2Model ----
(***************************************************************************)
(* RSA signing, verification, encryption and decryption of the OpenSSL     *)
(* backend (cryptography/hazmat/backends/openssl/rsa.py) as a state        *)
(* machine: the signature or verification context in hand with its hash    *)
(* context, a second context set aside, the key objects with the big       *)
(* numbers they own, the outcome of the last call, and the capability      *)
(* flags of the linked library.                                            *)
(***************************************************************************)
EXTENDS Integers, Sequences, FiniteSets, TLC

VARIABLES lib, keys, ctx, other, last

vars == <<lib, keys, ctx, other, last>>

-----------------------------------------------------------------------------
(* Bounds of the model *)

\* longest message (sum of the update() arguments) the contexts are fed
MaxMsgLen == 2

\* most public keys public_key() is asked for
MaxPublicKeys == 2

-----------------------------------------------------------------------------
(* Input domains *)

\* byte values the update() arguments are made of
Byte == {1, 2}

RECURSIVE SeqsUpTo(_)
SeqsUpTo(n) ==
    IF n = 0 THEN {<<>>}
    ELSE LET shorter == SeqsUpTo(n - 1)
         IN shorter \cup {Append(s, b) : s \in {t \in shorter : Len(t) = n - 1}, b \in Byte}

Messages == SeqsUpTo(MaxMsgLen)

\* update() arguments: non-empty chunks and the empty chunk
Chunks == SeqsUpTo(1)

\* messages the candidate signatures were made of
SignedMessages == {<<>>, <<1>>, <<1, 2>>}

\* RSA modulus bit lengths: byte aligned, one bit over a byte boundary, and
\* a key too small for the largest digest
KeySizes == {512, 521, 528, 2048}

\* hash algorithms the backend supports (hashes.SHA1, SHA256, SHA512)
Hashes == {"sha1", "sha256", "sha512"}

\* a hash algorithm the linked library does not provide
UnsupportedHashes == {"whirlpool"}

digest_size(h) ==
    CASE h = "sha1" -> 20
      [] h = "sha256" -> 32
      [] h = "sha512" -> 64
      [] OTHER -> 64

\* fixed PSS salt lengths: none, the maximum for 2048 bits with SHA-256, one more
FixedSalts == {0, 222, 223}

Pad(kind, mgf, mgf_algorithm, salt_max, salt_length, algorithm, label) ==
    [kind |-> kind, mgf |-> mgf, mgf_algorithm |-> mgf_algorithm,
     salt_max |-> salt_max, salt_length |-> salt_length,
     algorithm |-> algorithm, label |-> label]

PKCS1v15 == Pad("PKCS1v15", "none", "none", FALSE, 0, "none", "None")

\* PSS(mgf, salt_length): salt_length is PSS.MAX_LENGTH (salt_max) or a number
PSSPaddings ==
    {Pad("PSS", "MGF1", h, TRUE, 0, "none", "None") :
        h \in {"sha1", "sha256"} \cup UnsupportedHashes}
    \cup {Pad("PSS", "MGF1", "sha1", FALSE, s, "none", "None") : s \in FixedSalts}
    \cup {Pad("PSS", "OtherMGF", "none", TRUE, 0, "none", "None")}

\* OAEP(mgf, algorithm, label)
OAEPPaddings ==
    {Pad("OAEP", "MGF1", h, FALSE, 0, a, l) :
        h \in {"sha1", "sha256"}, a \in {"sha1", "sha256"},
        l \in {"None", "empty", "nonempty"}}
    \cup {Pad("OAEP", "OtherMGF", "none", FALSE, 0, "sha1", "None")}

\* an AsymmetricPadding this backend knows nothing about
OtherPadding == Pad("Other", "none", "none", FALSE, 0, "none", "None")

\* a value that is no AsymmetricPadding at all
NotAPadding == Pad("NotAPadding", "none", "none", FALSE, 0, "none", "None")

Paddings == {PKCS1v15, OtherPadding, NotAPadding} \cup PSSPaddings \cup OAEPPaddings

\* isinstance(padding, AsymmetricPadding)
IsAsymmetricPadding(padding) == padding.kind # "NotAPadding"

\* The candidate signature handed to verifier(): "good" is the signature the
\* matching private key made of msg with the same padding and hash, "bad" has
\* the right length and a value below the modulus but is no valid signature,
\* "toolarge" has the right length and a value not below the modulus, "short"
\* has a length other than the key size.
Signatures ==
    {[kind |-> "good", msg |-> m] : m \in SignedMessages}
    \cup {[kind |-> k, msg |-> <<>>] : k \in {"bad", "toolarge", "short"}}

NoSignature == [kind |-> "none", msg |-> <<>>]

\* no data: what a call that takes or returns nothing is recorded with
NoData == [kind |-> "none"]

-----------------------------------------------------------------------------
(* The hash context (hashes.Hash): active until finalize() *)

NewHash == [active |-> TRUE, data |-> <<>>]

NoHash == [active |-> FALSE, data |-> <<>>]

\* Hash.update: AlreadyFinalized once finalized, else appends
Hash_update(h, data) ==
    IF ~h.active
    THEN [outcome |-> "AlreadyFinalized", hash_ctx |-> h]
    ELSE [outcome |-> "Updated", hash_ctx |-> [h EXCEPT !.data = h.data \o data]]

\* Hash.finalize: AlreadyFinalized once finalized, else the digest of the
\* data fed so far, and the context is finalized
Hash_finalize(h) ==
    IF ~h.active
    THEN [outcome |-> "AlreadyFinalized", hash_ctx |-> h]
    ELSE [outcome |-> "Digest", hash_ctx |-> [h EXCEPT !.active = FALSE]]

-----------------------------------------------------------------------------
(* The linked library *)

\* int(math.ceil(x / 8.0))
ceil_div8(x) == (x + 7) \div 8

\* int(math.ceil(self.key_size / 8.0))
key_size_bytes(key_size) == ceil_div8(key_size)

\* EVP_PKEY_size / RSA_size: the modulus length in bytes
EVP_PKEY_size(key_size) == key_size_bytes(key_size)

\* backend._mgf1_hash_supported
mgf1_hash_supported(algorithm) ==
    IF lib.Cryptography_HAS_MGF1_MD
    THEN algorithm \in Hashes
    ELSE algorithm = "sha1"

\* EMSA-PSS encoding of a digest with a salt fits the key
PSS_encoding_fits(key_size, dlen, salt_length) ==
    ceil_div8(key_size - 1) >= dlen + salt_length + 2

\* EMSA-PKCS1-v1_5 encoding of a digest fits the key
PKCS1_encoding_fits(pkey_size, dlen) == dlen <= pkey_size - 11

\* the signature the private key makes of msg: its value is determined by
\* the key, the padding scheme, the digest, and for PSS the MGF1 digest and
\* the salt length
RSA_signature(key_size, scheme, md, mgf1_md, salt_length, msg) ==
    [kind |-> "signed", key_size |-> key_size, scheme |-> scheme, md |-> md,
     mgf1_md |-> mgf1_md, salt_length |-> salt_length, msg |-> msg]

\* RSA_public_decrypt(len(signature), signature, buf, rsa, RSA_NO_PADDING):
\* the key size for a signature of key-size length below the modulus
RSA_public_decrypt(signature, pkey_size) ==
    IF signature.kind \in {"good", "bad", "signed"} THEN pkey_size ELSE 0 - 1

-----------------------------------------------------------------------------
(* _get_rsa_pss_salt_length: returned holds unless the assertion fails *)

\* as _get_rsa_pss_salt_length, but rounding (key_size - 1) / 8 down
_get_rsa_pss_salt_length_floor(pss, key_size, dlen) ==
    IF pss.salt_max
    THEN LET emlen == (key_size - 1) \div 8
             salt_length == emlen - dlen - 2
         IN [returned |-> salt_length >= 0, value |-> salt_length]
    ELSE [returned |-> TRUE, value |-> pss.salt_length]

\* as _get_rsa_pss_salt_length, but cutting a fixed salt length down to the
\* maximum
_get_rsa_pss_salt_length_clamped(pss, key_size, dlen) ==
    LET emlen == ceil_div8(key_size - 1)
        salt_length == emlen - dlen - 2
    IN  IF pss.salt_max
        THEN [returned |-> salt_length >= 0, value |-> salt_length]
        ELSE [returned |-> TRUE,
              value |-> IF pss.salt_length > salt_length /\ salt_length >= 0
                        THEN salt_length
                        ELSE pss.salt_length]

_get_rsa_pss_salt_length(pss, key_size, dlen) ==
    IF pss.salt_max
    THEN LET emlen == ceil_div8(key_size - 1)
             salt_length == emlen - dlen - 2
         IN [returned |-> salt_length >= 0, value |-> salt_length]
    ELSE [returned |-> TRUE, value |-> pss.salt_length]

-----------------------------------------------------------------------------
(* Contexts *)

NoCtx ==
    [kind |-> "none", method |-> "none", padding |-> PKCS1v15,
     algorithm |-> "sha1", key_size |-> 0, pkey_size |-> 0,
     signature |-> NoSignature, hash_ctx |-> NoHash, called |-> FALSE]

Context(kind, method, padding, algorithm, key_size, signature) ==
    [kind |-> kind, method |-> method, padding |-> padding,
     algorithm |-> algorithm, key_size |-> key_size,
     pkey_size |-> EVP_PKEY_size(key_size), signature |-> signature,
     hash_ctx |-> NewHash, called |-> FALSE]

\* the outcome of a constructor: the error raised, or "Created" and the object
Raised(error) == [outcome |-> error, ctx |-> NoCtx]

Created(c) == [outcome |-> "Created", ctx |-> c]

\* as _RSASignatureContext.__init__, but with the key-size check off by one
RSASignatureContext_init_off_by_one(key_size, padding, algorithm) ==
    LET pkey_size == EVP_PKEY_size(key_size)
        new(method) == Created(Context("sign", method, padding, algorithm,
                                       key_size, NoSignature))
    IN  IF ~IsAsymmetricPadding(padding) THEN Raised("TypeError")
        ELSE IF padding.kind = "PKCS1v15"
        THEN IF lib.Cryptography_HAS_PKEY_CTX
             THEN new("_finalize_pkey_ctx")
             ELSE new("_finalize_pkcs1")
        ELSE IF padding.kind = "PSS"
        THEN IF padding.mgf # "MGF1" THEN Raised("UnsupportedMGF")
             ELSE IF pkey_size - digest_size(algorithm) - 2 <= 0
             THEN Raised("DigestTooLarge")
             ELSE IF ~mgf1_hash_supported(padding.mgf_algorithm)
             THEN Raised("UnsupportedHash")
             ELSE IF lib.Cryptography_HAS_PKEY_CTX
             THEN new("_finalize_pkey_ctx")
             ELSE new("_finalize_pss")
        ELSE Raised("UnsupportedPadding")

\* _RSASignatureContext.__init__
RSASignatureContext_init(key_size, padding, algorithm) ==
    LET pkey_size == EVP_PKEY_size(key_size)
        new(method) == Created(Context("sign", method, padding, algorithm,
                                       key_size, NoSignature))
    IN  IF ~IsAsymmetricPadding(padding) THEN Raised("TypeError")
        ELSE IF padding.kind = "PKCS1v15"
        THEN IF lib.Cryptography_HAS_PKEY_CTX
             THEN new("_finalize_pkey_ctx")
             ELSE new("_finalize_pkcs1")
        ELSE IF padding.kind = "PSS"
        THEN IF padding.mgf # "MGF1" THEN Raised("UnsupportedMGF")
             ELSE IF pkey_size - digest_size(algorithm) - 2 < 0
             THEN Raised("DigestTooLarge")
             ELSE IF ~mgf1_hash_supported(padding.mgf_algorithm)
             THEN Raised("UnsupportedHash")
             ELSE IF lib.Cryptography_HAS_PKEY_CTX
             THEN new("_finalize_pkey_ctx")
             ELSE new("_finalize_pss")
        ELSE Raised("UnsupportedPadding")

\* _RSAVerificationContext.__init__
RSAVerificationContext_init(key_size, signature, padding, algorithm) ==
    LET pkey_size == EVP_PKEY_size(key_size)
        new(method) == Created(Context("verify", method, padding, algorithm,
                                       key_size, signature))
    IN  IF ~IsAsymmetricPadding(padding) THEN Raised("TypeError")
        ELSE IF padding.kind = "PKCS1v15"
        THEN IF lib.Cryptography_HAS_PKEY_CTX
             THEN new("_verify_pkey_ctx")
             ELSE new("_verify_pkcs1")
        ELSE IF padding.kind = "PSS"
        THEN IF padding.mgf # "MGF1" THEN Raised("UnsupportedMGF")
             ELSE IF pkey_size - digest_size(algorithm) - 2 < 0
             THEN Raised("DigestTooLarge")
             ELSE IF ~mgf1_hash_supported(padding.mgf_algorithm)
             THEN Raised("UnsupportedHash")
             ELSE IF lib.Cryptography_HAS_PKEY_CTX
             THEN new("_verify_pkey_ctx")
             ELSE new("_verify_pss")
        ELSE Raised("UnsupportedPadding")

\* the result of a context method: the outcome, the hash context it leaves,
\* and the salt length it resolved (salt_known) if it got that far
Result(outcome, hash_ctx, salt_known, salt) ==
    [outcome |-> outcome, hash_ctx |-> hash_ctx,
     salt_known |-> salt_known, salt |-> salt, returned |-> NoData]

\* finalize() returns a signature
Signature(hash_ctx, salt_known, salt, signature) ==
    [Result("Signature", hash_ctx, salt_known, salt) EXCEPT !.returned = signature]

\* the MGF1 digest of a pkey_ctx: the one set with
\* EVP_PKEY_CTX_set_rsa_mgf1_md where the library has it, else the
\* library's default, the signature digest
pkey_ctx_mgf1_md(c) ==
    IF lib.Cryptography_HAS_MGF1_MD THEN c.padding.mgf_algorithm ELSE c.algorithm

\* EVP_PKEY_sign / EVP_PKEY_verify of a pkey_ctx set up for the padding of c:
\* the signature made, and the one signature accepted
pkey_ctx_signature(c, mgf1_md, salt_length) ==
    IF c.padding.kind = "PSS"
    THEN RSA_signature(c.key_size, "PSS", c.algorithm, mgf1_md, salt_length,
                       c.hash_ctx.data)
    ELSE RSA_signature(c.key_size, "PKCS1v15", c.algorithm, "none", 0,
                       c.hash_ctx.data)

\* EVP_SignFinal / EVP_VerifyFinal with the hash context of c
EVP_signature(c) ==
    RSA_signature(c.key_size, "PKCS1v15", c.algorithm, "none", 0, c.hash_ctx.data)

\* RSA_padding_add_PKCS1_PSS / RSA_verify_PKCS1_PSS with evp_md: the digest
\* is the MGF1 digest too
PKCS1_PSS_signature(c, salt_length) ==
    RSA_signature(c.key_size, "PSS", c.algorithm, c.algorithm, salt_length,
                  c.hash_ctx.data)

\* _RSASignatureContext._finalize_pkey_ctx
_finalize_pkey_ctx(c) ==
    LET pss == c.padding.kind = "PSS"
        dlen == digest_size(c.algorithm)
        sl == _get_rsa_pss_salt_length(c.padding, c.key_size, dlen)
        fin == Hash_finalize(c.hash_ctx)
    IN  IF pss /\ ~sl.returned
        THEN Result("AssertionError", c.hash_ctx, FALSE, 0)
        ELSE IF fin.outcome = "AlreadyFinalized"
        THEN Result("AlreadyFinalized", fin.hash_ctx, pss, IF pss THEN sl.value ELSE 0)
        ELSE IF pss
        THEN IF PSS_encoding_fits(c.key_size, dlen, sl.value)
             THEN Signature(fin.hash_ctx, TRUE, sl.value,
                      pkey_ctx_signature(c, pkey_ctx_mgf1_md(c), sl.value))
             \* RSA_R_DATA_TOO_LARGE_FOR_KEY_SIZE
             ELSE Result("SaltTooLong", fin.hash_ctx, TRUE, sl.value)
        ELSE IF PKCS1_encoding_fits(c.pkey_size, dlen)
             THEN Signature(fin.hash_ctx, FALSE, 0,
                      pkey_ctx_signature(c, pkey_ctx_mgf1_md(c), 0))
             \* RSA_R_DIGEST_TOO_BIG_FOR_RSA_KEY
             ELSE Result("DigestTooLarge", fin.hash_ctx, FALSE, 0)

\* _RSASignatureContext._finalize_pkcs1
_finalize_pkcs1(c) ==
    IF ~c.hash_ctx.active
    THEN Result("AlreadyFinalized", c.hash_ctx, FALSE, 0)
    ELSE LET fin == Hash_finalize(c.hash_ctx)
         IN  IF PKCS1_encoding_fits(c.pkey_size, digest_size(c.algorithm))
             THEN Signature(fin.hash_ctx, FALSE, 0, EVP_signature(c))
             ELSE Result("DigestTooLarge", fin.hash_ctx, FALSE, 0)

\* _RSASignatureContext._finalize_pss
_finalize_pss(c) ==
    LET fin == Hash_finalize(c.hash_ctx)
        dlen == digest_size(c.algorithm)
        sl == _get_rsa_pss_salt_length(c.padding, c.key_size, dlen)
    IN  IF fin.outcome = "AlreadyFinalized"
        THEN Result("AlreadyFinalized", fin.hash_ctx, FALSE, 0)
        ELSE IF ~sl.returned
        THEN Result("AssertionError", fin.hash_ctx, FALSE, 0)
        ELSE IF ~PSS_encoding_fits(c.key_size, dlen, sl.value)
        THEN Result("SaltTooLong", fin.hash_ctx, TRUE, sl.value)
        ELSE Signature(fin.hash_ctx, TRUE, sl.value,
                       PKCS1_PSS_signature(c, sl.value))

\* _RSASignatureContext.finalize
RSASignatureContext_finalize(c) ==
    CASE c.method = "_finalize_pkey_ctx" -> _finalize_pkey_ctx(c)
      [] c.method = "_finalize_pkcs1" -> _finalize_pkcs1(c)
      [] c.method = "_finalize_pss" -> _finalize_pss(c)

-----------------------------------------------------------------------------
(* Verification *)

\* the candidate signature is the one the private key made of the data the
\* context hashed, with this padding and hash: a "good" one of that data, or
\* the very signature (made) that these settings give
signature_matches(c, made) ==
    \/ /\ c.signature.kind = "good"
       /\ c.signature.msg = c.hash_ctx.data
    \/ c.signature = made

\* EVP_PKEY_verify / EVP_VerifyFinal: 1 for a valid signature, 0 for an
\* invalid one, negative when the library fails for another reason (fault)
EVP_PKEY_verify(c, made, fault) ==
    IF fault THEN 0 - 1
    ELSE IF signature_matches(c, made)
            /\ (c.padding.kind = "PSS" =>
                   PSS_encoding_fits(c.key_size, digest_size(c.algorithm),
                       _get_rsa_pss_salt_length(c.padding, c.key_size,
                           digest_size(c.algorithm)).value))
    THEN 1
    ELSE 0

\* RSA_verify_PKCS1_PSS on the decrypted block
RSA_verify_PKCS1_PSS(c, salt_length, fault) ==
    IF fault THEN 0 - 1
    ELSE IF signature_matches(c, PKCS1_PSS_signature(c, salt_length))
            /\ PSS_encoding_fits(c.key_size, digest_size(c.algorithm), salt_length)
    THEN 1
    ELSE 0

\* as _verify_pkey_ctx, but leaving the MGF1 digest of the pkey_ctx at the
\* library's default
_verify_pkey_ctx_default_mgf1(c, fault) ==
    LET pss == c.padding.kind = "PSS"
        dlen == digest_size(c.algorithm)
        sl == _get_rsa_pss_salt_length(c.padding, c.key_size, dlen)
        fin == Hash_finalize(c.hash_ctx)
        known == pss
        salt == IF pss THEN sl.value ELSE 0
        res == EVP_PKEY_verify(c, pkey_ctx_signature(c, c.algorithm, salt), fault)
    IN  IF pss /\ ~sl.returned
        THEN Result("AssertionError", c.hash_ctx, FALSE, 0)
        ELSE IF fin.outcome = "AlreadyFinalized"
        THEN Result("AlreadyFinalized", fin.hash_ctx, known, salt)
        ELSE IF ~(res >= 0)
        THEN Result("AssertionError", fin.hash_ctx, known, salt)
        ELSE IF res = 0
        THEN Result("InvalidSignature", fin.hash_ctx, known, salt)
        ELSE Result("Verified", fin.hash_ctx, known, salt)

\* _RSAVerificationContext._verify_pkey_ctx
_verify_pkey_ctx(c, fault) ==
    LET pss == c.padding.kind = "PSS"
        dlen == digest_size(c.algorithm)
        sl == _get_rsa_pss_salt_length(c.padding, c.key_size, dlen)
        fin == Hash_finalize(c.hash_ctx)
        known == pss
        salt == IF pss THEN sl.value ELSE 0
        res == EVP_PKEY_verify(c,
                   pkey_ctx_signature(c, pkey_ctx_mgf1_md(c), salt), fault)
    IN  IF pss /\ ~sl.returned
        THEN Result("AssertionError", c.hash_ctx, FALSE, 0)
        ELSE IF fin.outcome = "AlreadyFinalized"
        THEN Result("AlreadyFinalized", fin.hash_ctx, known, salt)
        ELSE IF ~(res >= 0)
        THEN Result("AssertionError", fin.hash_ctx, known, salt)
        ELSE IF res = 0
        THEN Result("InvalidSignature", fin.hash_ctx, known, salt)
        ELSE Result("Verified", fin.hash_ctx, known, salt)

\* as _verify_pkcs1, but raising on a result of zero only
_verify_pkcs1_zero_only(c, fault) ==
    IF ~c.hash_ctx.active
    THEN Result("AlreadyFinalized", c.hash_ctx, FALSE, 0)
    ELSE LET res == EVP_PKEY_verify(c, EVP_signature(c), fault)
             fin == Hash_finalize(c.hash_ctx)
         IN  IF res = 0
             THEN Result("InvalidSignature", fin.hash_ctx, FALSE, 0)
             ELSE Result("Verified", fin.hash_ctx, FALSE, 0)

\* _RSAVerificationContext._verify_pkcs1
_verify_pkcs1(c, fault) ==
    IF ~c.hash_ctx.active
    THEN Result("AlreadyFinalized", c.hash_ctx, FALSE, 0)
    ELSE LET res == EVP_PKEY_verify(c, EVP_signature(c), fault)
             fin == Hash_finalize(c.hash_ctx)
         IN  IF ~(res >= 0)
             THEN Result("AssertionError", fin.hash_ctx, FALSE, 0)
             ELSE IF res = 0
             THEN Result("InvalidSignature", fin.hash_ctx, FALSE, 0)
             ELSE Result("Verified", fin.hash_ctx, FALSE, 0)

\* _RSAVerificationContext._verify_pss
_verify_pss(c, fault) ==
    LET fin == Hash_finalize(c.hash_ctx)
        dlen == digest_size(c.algorithm)
        sl == _get_rsa_pss_salt_length(c.padding, c.key_size, dlen)
    IN  IF RSA_public_decrypt(c.signature, c.pkey_size) # c.pkey_size
        THEN Result("InvalidSignature", c.hash_ctx, FALSE, 0)
        ELSE IF fin.outcome = "AlreadyFinalized"
        THEN Result("AlreadyFinalized", fin.hash_ctx, FALSE, 0)
        ELSE IF ~sl.returned
        THEN Result("AssertionError", fin.hash_ctx, FALSE, 0)
        ELSE IF RSA_verify_PKCS1_PSS(c, sl.value, fault) # 1
        THEN Result("InvalidSignature", fin.hash_ctx, TRUE, sl.value)
        ELSE Result("Verified", fin.hash_ctx, TRUE, sl.value)

\* _RSAVerificationContext.verify
RSAVerificationContext_verify(c, fault) ==
    CASE c.method = "_verify_pkey_ctx" -> _verify_pkey_ctx(c, fault)
      [] c.method = "_verify_pkcs1" -> _verify_pkcs1(c, fault)
      [] c.method = "_verify_pss" -> _verify_pss(c, fault)

-----------------------------------------------------------------------------
(* Encryption and decryption *)

\* keys encrypt() and decrypt() are called on: the keys of the contexts and
\* a 1024-bit key
EncryptionKeySizes == KeySizes \cup {1024}

\* plaintext lengths handed to encrypt(): empty, and around the OAEP and
\* PKCS1v15 bounds of the 512-bit and of the 1024-bit key
PlaintextLengths == {0, 22, 23, 53, 54, 86, 87, 117, 118}

\* the plaintext handed to encrypt(), known by its length
Plaintext(length) == [kind |-> "plaintext", length |-> length]

\* what the public operation writes for plaintext under the key and the
\* padding it was told: key-size bytes
Encrypted(key_size, padding_enum, plaintext) ==
    [kind |-> "encrypted", length |-> EVP_PKEY_size(key_size),
     key_size |-> key_size,
     padding_enum |-> padding_enum, plaintext |-> plaintext]

\* lengths of the ciphertexts handed to decrypt(): the sizes in bytes of the
\* keys (64, 66, 128, 256), none, and 65, the eighth of 521 bits rounded down
CiphertextLengths == {0, 64, 65, 66, 128, 256}

\* The ciphertext handed to decrypt(), of that many bytes: "valid" is an
\* encryption under the key and the padding given, "invalid" decrypts to a
\* block that is not padded that way, "toolarge" is a value not below the
\* modulus.
Ciphertexts ==
    {[kind |-> k, length |-> l] :
        k \in {"valid", "invalid", "toolarge"}, l \in CiphertextLengths \ {0, 65}}
    \cup {[kind |-> "invalid", length |-> l] : l \in {0, 65}}

\* the longest plaintext the padding takes
max_plaintext(padding_enum, pkey_size) ==
    IF padding_enum = "RSA_PKCS1_PADDING"
    THEN pkey_size - 11
    ELSE pkey_size - 2 * digest_size("sha1") - 2

\* the error queue the library leaves when the public operation fails
encrypt_errors(padding_enum, pkey_size, length) ==
    IF length > max_plaintext(padding_enum, pkey_size)
    THEN {"RSA_R_DATA_TOO_LARGE_FOR_KEY_SIZE"}
    ELSE {}

\* the ciphertext is an encryption under this key with this padding
decrypts(key_size, padding_enum, ciphertext) ==
    \/ ciphertext.kind = "valid"
    \/ /\ ciphertext.kind = "encrypted"
       /\ ciphertext.key_size = key_size
       /\ ciphertext.padding_enum = padding_enum

\* the first error the library may leave when the private operation fails
decrypt_errors(key_size, padding_enum, ciphertext) ==
    IF decrypts(key_size, padding_enum, ciphertext) THEN {}
    ELSE IF ciphertext.kind = "toolarge"
    THEN {"RSA_R_DATA_TOO_LARGE_FOR_MODULUS"}
    ELSE IF padding_enum = "RSA_PKCS1_OAEP_PADDING"
    THEN {"RSA_R_OAEP_DECODING_ERROR"}
    ELSE {"RSA_R_BLOCK_TYPE_IS_NOT_02"}
         \cup (IF lib.Cryptography_HAS_RSA_R_PKCS_DECODING_ERROR
               THEN {"RSA_R_PKCS_DECODING_ERROR"}
               ELSE {})

\* as _handle_rsa_enc_dec_error, but taking every key for a private key
_handle_rsa_enc_dec_error_private(is_public, reason) ==
    LET decoding_errors ==
            {"RSA_R_BLOCK_TYPE_IS_NOT_01", "RSA_R_BLOCK_TYPE_IS_NOT_02"}
            \cup (IF lib.Cryptography_HAS_RSA_R_PKCS_DECODING_ERROR
                  THEN {"RSA_R_PKCS_DECODING_ERROR"}
                  ELSE {})
    IN  IF reason \in decoding_errors
        THEN "DecryptionFailed"
        ELSE "AssertionError"

\* _handle_rsa_enc_dec_error: reason is errors[0].reason
_handle_rsa_enc_dec_error(is_public, reason) ==
    IF is_public
    THEN IF reason = "RSA_R_DATA_TOO_LARGE_FOR_KEY_SIZE"
         THEN "DataTooLong"
         ELSE "AssertionError"
    ELSE LET decoding_errors ==
                 {"RSA_R_BLOCK_TYPE_IS_NOT_01", "RSA_R_BLOCK_TYPE_IS_NOT_02"}
                 \cup (IF lib.Cryptography_HAS_RSA_R_PKCS_DECODING_ERROR
                       THEN {"RSA_R_PKCS_DECODING_ERROR"}
                       ELSE {})
         IN  IF reason \in decoding_errors
             THEN "DecryptionFailed"
             ELSE "AssertionError"

\* what the library writes to the output buffer when the operation succeeds,
\* and how many bytes of the buffer that is: the ciphertext of key-size
\* length, or the plaintext
crypt_output(is_public, key_size, padding_enum, data) ==
    IF is_public
    THEN [value |-> Encrypted(key_size, padding_enum, data),
          written |-> EVP_PKEY_size(key_size)]
    ELSE IF data.kind = "encrypted"
    THEN [value |-> data.plaintext, written |-> data.plaintext.length]
    ELSE [value |-> Plaintext(1), written |-> 1]

\* what EVP_PKEY_encrypt / EVP_PKEY_decrypt returns: 1 when it succeeded,
\* -1 when it left errors
crypt_result(errors) == IF errors = {} THEN 1 ELSE 0 - 1

\* what RSA_public_encrypt / RSA_private_decrypt returns: the number of
\* bytes written when it succeeded, -1 when it left errors
crypt_result_098(errors, written) == IF errors = {} THEN written ELSE 0 - 1

\* backend._ffi.buffer(buf)[:n] of a buffer the library wrote to
buffer_slice(buf, n) ==
    IF n = buf.written THEN buf.value
    ELSE [kind |-> "truncated", length |-> n]

\* what encrypt() or decrypt() does: the outcome and the bytes returned
Returned(outcome, value) == [outcome |-> outcome, returned |-> value]

\* _enc_dec_rsa_pkey_ctx: res is what the library's call returned, reason
\* the first error it left, buf the output buffer, outlen the length the
\* library stored
_enc_dec_rsa_pkey_ctx(is_public, res, reason, buf, outlen) ==
    IF res <= 0
    THEN Returned(_handle_rsa_enc_dec_error(is_public, reason), NoData)
    ELSE Returned(IF is_public THEN "Ciphertext" ELSE "Plaintext",
                  buffer_slice(buf, outlen))

\* as _enc_dec_rsa_098, but taking a result of zero for a failure as
\* _enc_dec_rsa_pkey_ctx does
_enc_dec_rsa_098_zero_fails(is_public, res, reason, buf) ==
    IF res <= 0
    THEN Returned(_handle_rsa_enc_dec_error(is_public, reason), NoData)
    ELSE Returned(IF is_public THEN "Ciphertext" ELSE "Plaintext",
                  buffer_slice(buf, res))

\* _enc_dec_rsa_098
_enc_dec_rsa_098(is_public, res, reason, buf) ==
    IF res < 0
    THEN Returned(_handle_rsa_enc_dec_error(is_public, reason), NoData)
    ELSE Returned(IF is_public THEN "Ciphertext" ELSE "Plaintext",
                  buffer_slice(buf, res))

\* as _enc_dec_rsa_padding, but any padding it does not know is taken for
\* PKCS1v15
_enc_dec_rsa_padding_default(padding) ==
    IF ~IsAsymmetricPadding(padding) THEN "TypeError"
    ELSE IF padding.kind = "OAEP"
    THEN IF padding.mgf # "MGF1" THEN "UnsupportedMGF"
         ELSE IF padding.mgf_algorithm # "sha1" THEN "UnsupportedHash"
         ELSE IF padding.label = "nonempty" THEN "LabelNotSupported"
         ELSE IF padding.algorithm # "sha1" THEN "UnsupportedHash"
         ELSE "RSA_PKCS1_OAEP_PADDING"
    ELSE "RSA_PKCS1_PADDING"

\* as _enc_dec_rsa_padding, but without the check that the MGF is MGF1
_enc_dec_rsa_padding_any_mgf(padding) ==
    IF ~IsAsymmetricPadding(padding) THEN "TypeError"
    ELSE IF padding.kind = "PKCS1v15" THEN "RSA_PKCS1_PADDING"
    ELSE IF padding.kind = "OAEP"
    THEN IF padding.mgf_algorithm # "sha1" /\ padding.mgf = "MGF1"
         THEN "UnsupportedHash"
         ELSE IF padding.label = "nonempty" THEN "LabelNotSupported"
         ELSE IF padding.algorithm # "sha1" THEN "UnsupportedHash"
         ELSE "RSA_PKCS1_OAEP_PADDING"
    ELSE "UnsupportedPadding"

\* as _enc_dec_rsa_padding, but taking the empty label for a label
_enc_dec_rsa_padding_empty_label(padding) ==
    IF ~IsAsymmetricPadding(padding) THEN "TypeError"
    ELSE IF padding.kind = "PKCS1v15" THEN "RSA_PKCS1_PADDING"
    ELSE IF padding.kind = "OAEP"
    THEN IF padding.mgf # "MGF1" THEN "UnsupportedMGF"
         ELSE IF padding.mgf_algorithm # "sha1" THEN "UnsupportedHash"
         ELSE IF padding.label # "None" THEN "LabelNotSupported"
         ELSE IF padding.algorithm # "sha1" THEN "UnsupportedHash"
         ELSE "RSA_PKCS1_OAEP_PADDING"
    ELSE "UnsupportedPadding"

\* the padding checks of _enc_dec_rsa: the padding enum, or the error raised
_enc_dec_rsa_padding(padding) ==
    IF ~IsAsymmetricPadding(padding) THEN "TypeError"
    ELSE IF padding.kind = "PKCS1v15" THEN "RSA_PKCS1_PADDING"
    ELSE IF padding.kind = "OAEP"
    THEN IF padding.mgf # "MGF1" THEN "UnsupportedMGF"
         ELSE IF padding.mgf_algorithm # "sha1" THEN "UnsupportedHash"
         ELSE IF padding.label = "nonempty" THEN "LabelNotSupported"
         ELSE IF padding.algorithm # "sha1" THEN "UnsupportedHash"
         ELSE "RSA_PKCS1_OAEP_PADDING"
    ELSE "UnsupportedPadding"

PaddingEnums == {"RSA_PKCS1_PADDING", "RSA_PKCS1_OAEP_PADDING"}

\* _enc_dec_rsa: the outcomes it can have, one for each error the library
\* may report first
_enc_dec_rsa(is_public, key_size, data, padding) ==
    LET padding_enum == _enc_dec_rsa_padding(padding)
        errors == IF is_public
                  THEN encrypt_errors(padding_enum, EVP_PKEY_size(key_size),
                                      data.length)
                  ELSE decrypt_errors(key_size, padding_enum, data)
        buf == crypt_output(is_public, key_size, padding_enum, data)
        crypt(reason) ==
            LET r == IF lib.Cryptography_HAS_PKEY_CTX
                     THEN _enc_dec_rsa_pkey_ctx(is_public, crypt_result(errors),
                                                reason, buf, buf.written)
                     ELSE _enc_dec_rsa_098(is_public,
                              crypt_result_098(errors, buf.written), reason, buf)
            IN  [outcome |-> r.outcome, backend_called |-> TRUE,
                 returned |-> r.returned]
    IN  IF padding_enum \notin PaddingEnums
        THEN {[outcome |-> padding_enum, backend_called |-> FALSE,
               returned |-> NoData]}
        ELSE IF errors = {}
        THEN {crypt("none")}
        ELSE {crypt(reason) : reason \in errors}

\* _RSAPublicKey.encrypt
RSAPublicKey_encrypt(key_size, plaintext, padding) ==
    _enc_dec_rsa(TRUE, key_size, plaintext, padding)

\* as _RSAPrivateKey.decrypt, but with the key size in bytes rounded down
RSAPrivateKey_decrypt_floor(key_size, ciphertext, padding) ==
    IF key_size \div 8 # ciphertext.length
    THEN {[outcome |-> "CiphertextLength", backend_called |-> FALSE,
           returned |-> NoData]}
    ELSE _enc_dec_rsa(FALSE, key_size, ciphertext, padding)

\* _RSAPrivateKey.decrypt
RSAPrivateKey_decrypt(key_size, ciphertext, padding) ==
    IF key_size_bytes(key_size) # ciphertext.length
    THEN {[outcome |-> "CiphertextLength", backend_called |-> FALSE,
           returned |-> NoData]}
    ELSE _enc_dec_rsa(FALSE, key_size, ciphertext, padding)

-----------------------------------------------------------------------------
(* Key objects and the big numbers (BIGNUM) of their RSA structures *)

\* addresses of the big numbers: two for each key object
Addresses == 1..(2 * (MaxPublicKeys + 1))

\* public exponents
Exponents == {3, 65537}

\* a modulus, known by its bit length, or an exponent
Modulus(bits) == [bits |-> bits, value |-> 0]

Exponent(e) == [bits |-> 0, value |-> e]

FreeCell == [live |-> FALSE, number |-> Exponent(0)]

BN_num_bits(number) == number.bits

\* a key object: its RSA structure (the addresses of n and e) and the key
\* size it computed when it was made; numbers are the values of n and e its
\* RSA structure was given
Key(heap, n, e) ==
    [alive |-> TRUE, n |-> n, e |-> e,
     key_size |-> BN_num_bits(heap[n].number),
     numbers |-> [n |-> heap[n].number, e |-> heap[e].number]]

NoKey ==
    [alive |-> FALSE, n |-> 1, e |-> 1, key_size |-> 0,
     numbers |-> [n |-> Exponent(0), e |-> Exponent(0)]]

NoKeys == [heap |-> [a \in Addresses |-> FreeCell], priv |-> NoKey, pubs |-> <<>>]

\* a private key the backend has loaded or generated: _RSAPrivateKey.__init__
NewPrivateKey(key_size, e) ==
    LET heap == [a \in Addresses |->
                    IF a = 1 THEN [live |-> TRUE, number |-> Modulus(key_size)]
                    ELSE IF a = 2 THEN [live |-> TRUE, number |-> Exponent(e)]
                    ELSE FreeCell]
    IN  [heap |-> heap, priv |-> Key(heap, 1, 2), pubs |-> <<>>]

\* BN_dup: a new big number with the value of the one at address a (the
\* value of freed memory is 0)
BN_dup(heap, a) ==
    LET new == CHOOSE b \in Addresses :
                   /\ ~heap[b].live
                   /\ \A c \in Addresses : ~heap[c].live => b <= c
    IN  [heap |-> [heap EXCEPT ![new] = [live |-> TRUE, number |-> heap[a].number]],
         address |-> new]

\* as _RSAPrivateKey.public_key, but giving the new RSA structure the big
\* numbers of the private key themselves
RSAPrivateKey_public_key_alias(k) ==
    [k EXCEPT !.pubs = Append(@, Key(k.heap, k.priv.n, k.priv.e))]

\* _RSAPrivateKey.public_key
RSAPrivateKey_public_key(k) ==
    LET e == BN_dup(k.heap, k.priv.e)
        n == BN_dup(e.heap, k.priv.n)
    IN  [k EXCEPT !.heap = n.heap,
                  !.pubs = Append(@, Key(n.heap, n.address, e.address))]

\* RSA_free of the RSA structure of a key object: its big numbers are freed
RSA_free(heap, key) ==
    [a \in Addresses |-> IF a \in {key.n, key.e} THEN FreeCell ELSE heap[a]]

\* a private key and the public key public_key() made of it
KeyPair(key_size, e) == RSAPrivateKey_public_key(NewPrivateKey(key_size, e))

-----------------------------------------------------------------------------
(* The last call and its outcome *)

Call(op, outcome, padding, algorithm, key_size, was_active, after_call, salt_known, salt, length_ok, backend_called) ==
    [op |-> op, outcome |-> outcome, padding |-> padding,
     algorithm |-> algorithm, key_size |-> key_size,
     was_active |-> was_active, after_call |-> after_call,
     salt_known |-> salt_known, salt |-> salt,
     length_ok |-> length_ok, backend_called |-> backend_called,
     input |-> NoData, returned |-> NoData, fault |-> FALSE]

NoCall == Call("none", "none", PKCS1v15, "sha1", 0, FALSE, FALSE, FALSE, 0,
               TRUE, FALSE)

\* a method call on context c
MethodCall(op, c, r) ==
    Call(op, r.outcome, c.padding, c.algorithm, c.key_size,
         c.hash_ctx.active, c.called, r.salt_known, r.salt, TRUE, FALSE)

-----------------------------------------------------------------------------
(* Actions *)

LibFlags ==
    [Cryptography_HAS_PKEY_CTX : BOOLEAN,
     Cryptography_HAS_MGF1_MD : BOOLEAN,
     Cryptography_HAS_RSA_R_PKCS_DECODING_ERROR : BOOLEAN]

\* no key object is followed: the keys of signer(), verifier(), encrypt() and
\* decrypt() are known by their size
Init ==
    /\ lib \in LibFlags
    /\ keys = NoKeys
    /\ ctx = NoCtx
    /\ other = NoCtx
    /\ last = NoCall

\* _RSAPrivateKey.signer
Signer ==
    /\ ctx.kind = "none"
    /\ last.op = "none"
    /\ \E key_size \in KeySizes, padding \in Paddings, algorithm \in Hashes :
          LET r == RSASignatureContext_init(key_size, padding, algorithm)
          IN  /\ ctx' = r.ctx
              /\ last' = Call("signer", r.outcome, padding, algorithm, key_size,
                              FALSE, FALSE, FALSE, 0, TRUE, FALSE)
    /\ UNCHANGED <<lib, keys, other>>

\* _RSAPublicKey.verifier
Verifier ==
    /\ ctx.kind = "none"
    /\ last.op = "none"
    /\ \E key_size \in KeySizes, padding \in Paddings, algorithm \in Hashes,
          signature \in Signatures :
          LET r == RSAVerificationContext_init(key_size, signature, padding,
                                               algorithm)
          IN  /\ ctx' = r.ctx
              /\ last' = Call("verifier", r.outcome, padding, algorithm, key_size,
                              FALSE, FALSE, FALSE, 0, TRUE, FALSE)
    /\ UNCHANGED <<lib, keys, other>>

\* _RSAPrivateKey.public_key and _RSAPublicKey.verifier: a verifier of the
\* matching public key for the signature finalize() has just returned, with
\* the padding and the hash of the signer
SignedVerifier ==
    /\ ctx.kind = "sign"
    /\ last.op = "finalize"
    /\ last.outcome = "Signature"
    /\ LET r == RSAVerificationContext_init(ctx.key_size, last.returned,
                                            ctx.padding, ctx.algorithm)
       IN  /\ ctx' = r.ctx
           /\ last' = Call("verifier", r.outcome, ctx.padding, ctx.algorithm,
                           ctx.key_size, FALSE, FALSE, FALSE, 0, TRUE, FALSE)
    /\ UNCHANGED <<lib, keys, other>>

\* as Update, but hashing the data in a fresh hash context
Update_fresh_hash ==
    /\ ctx.kind # "none"
    /\ \E data \in Chunks :
          /\ Len(ctx.hash_ctx.data) + Len(other.hash_ctx.data) + Len(data)
                <= MaxMsgLen
          /\ LET r == Hash_update([ctx.hash_ctx EXCEPT !.data = <<>>], data)
             IN  /\ ctx' = [ctx EXCEPT !.hash_ctx = r.hash_ctx]
                 /\ last' = [MethodCall("update", ctx,
                                 Result(r.outcome, r.hash_ctx, FALSE, 0))
                             EXCEPT !.input = [kind |-> "data", msg |-> data]]
    /\ UNCHANGED <<lib, keys, other>>

\* _RSASignatureContext.update, _RSAVerificationContext.update
Update ==
    /\ ctx.kind # "none"
    /\ \E data \in Chunks :
          /\ Len(ctx.hash_ctx.data) + Len(other.hash_ctx.data) + Len(data)
                <= MaxMsgLen
          /\ LET r == Hash_update(ctx.hash_ctx, data)
             IN  /\ ctx' = [ctx EXCEPT !.hash_ctx = r.hash_ctx]
                 /\ last' = [MethodCall("update", ctx,
                                 Result(r.outcome, r.hash_ctx, FALSE, 0))
                             EXCEPT !.input = [kind |-> "data", msg |-> data]]
    /\ UNCHANGED <<lib, keys, other>>

\* as Finalize, but with one hash context for all the contexts of a key:
\* finalize() finalizes the hash of the context set aside too
Finalize_shared_hash ==
    /\ ctx.kind = "sign"
    /\ LET r == RSASignatureContext_finalize(ctx)
       IN  /\ ctx' = [ctx EXCEPT !.hash_ctx = r.hash_ctx, !.called = TRUE]
           /\ last' = [MethodCall("finalize", ctx, r)
                       EXCEPT !.returned = r.returned]
    /\ other' = [other EXCEPT !.hash_ctx.active = FALSE]
    /\ UNCHANGED <<lib, keys>>

\* _RSASignatureContext.finalize
Finalize ==
    /\ ctx.kind = "sign"
    /\ LET r == RSASignatureContext_finalize(ctx)
       IN  /\ ctx' = [ctx EXCEPT !.hash_ctx = r.hash_ctx, !.called = TRUE]
           /\ last' = [MethodCall("finalize", ctx, r)
                       EXCEPT !.returned = r.returned]
    /\ UNCHANGED <<lib, keys, other>>

\* _RSAVerificationContext.verify
Verify ==
    /\ ctx.kind = "verify"
    /\ \E fault \in BOOLEAN :
          LET r == RSAVerificationContext_verify(ctx, fault)
          IN  /\ ctx' = [ctx EXCEPT !.hash_ctx = r.hash_ctx, !.called = TRUE]
              /\ last' = [MethodCall("verify", ctx, r) EXCEPT !.fault = fault]
    /\ UNCHANGED <<lib, keys, other>>

\* the caller drops the context, or the exception of a failed call, and
\* starts over
Discard ==
    /\ last.op # "none"
    /\ ctx' = NoCtx
    /\ last' = NoCall
    /\ UNCHANGED <<lib, keys, other>>

\* _RSAPublicKey.encrypt
Encrypt ==
    /\ last.op = "none"
    /\ \E key_size \in EncryptionKeySizes, padding \in Paddings,
          length \in PlaintextLengths :
          \E r \in RSAPublicKey_encrypt(key_size, Plaintext(length), padding) :
              last' = [Call("encrypt", r.outcome, padding, "sha1", key_size,
                            FALSE, FALSE, FALSE, 0, TRUE, r.backend_called)
                       EXCEPT !.input = Plaintext(length),
                              !.returned = r.returned]
    /\ UNCHANGED <<lib, keys, ctx, other>>

\* _RSAPrivateKey.decrypt
Decrypt ==
    /\ last.op = "none"
    /\ \E key_size \in EncryptionKeySizes, padding \in Paddings,
          ciphertext \in Ciphertexts :
          \E r \in RSAPrivateKey_decrypt(key_size, ciphertext, padding) :
              last' = [Call("decrypt", r.outcome, padding, "sha1", key_size,
                            FALSE, FALSE, FALSE, 0,
                            ciphertext.length = key_size_bytes(key_size),
                            r.backend_called)
                       EXCEPT !.input = ciphertext, !.returned = r.returned]
    /\ UNCHANGED <<lib, keys, ctx, other>>

\* _RSAPrivateKey.decrypt of the ciphertext the last encrypt() of the
\* matching public key returned, with the padding it was made with
DecryptEncrypted ==
    /\ last.op = "encrypt"
    /\ last.outcome = "Ciphertext"
    /\ \E r \in RSAPrivateKey_decrypt(last.key_size, last.returned, last.padding) :
          last' = [Call("decrypt", r.outcome, last.padding, "sha1", last.key_size,
                        FALSE, FALSE, FALSE, 0,
                        last.returned.length = key_size_bytes(last.key_size),
                        r.backend_called)
                   EXCEPT !.input = last.returned, !.returned = r.returned]
    /\ UNCHANGED <<lib, keys, ctx, other>>

\* _RSAPrivateKey.public_key
PublicKey ==
    /\ keys.priv.alive
    /\ Len(keys.pubs) < MaxPublicKeys
    /\ keys' = RSAPrivateKey_public_key(keys)
    /\ UNCHANGED <<lib, ctx, other, last>>

\* the private key object is dropped and collected
FreePrivateKey ==
    /\ keys.priv.alive
    /\ keys' = [keys EXCEPT !.heap = RSA_free(keys.heap, keys.priv),
                            !.priv.alive = FALSE]
    /\ UNCHANGED <<lib, ctx, other, last>>

\* a public key object is dropped and collected
FreePublicKey ==
    /\ \E i \in DOMAIN keys.pubs :
          /\ keys.pubs[i].alive
          /\ keys' = [keys EXCEPT !.heap = RSA_free(keys.heap, keys.pubs[i]),
                                  !.pubs[i].alive = FALSE]
    /\ UNCHANGED <<lib, ctx, other, last>>

\* paddings, hashes and candidate signatures of the contexts that share a key
SharedPaddings ==
    {PKCS1v15, Pad("PSS", "MGF1", "sha1", TRUE, 0, "none", "None")}

SharedHashes == {"sha1"}

\* sizes of the key the contexts share: one bit over a byte boundary, and
\* byte aligned
SharedKeySizes == {521, 2048}

SharedSignatures ==
    {[kind |-> "good", msg |-> <<>>], [kind |-> "short", msg |-> <<>>]}

\* _RSAPrivateKey.signer on the private key followed
KeySigner ==
    /\ ctx.kind = "none"
    /\ last.op = "none"
    /\ keys.priv.alive
    /\ \E padding \in SharedPaddings, algorithm \in SharedHashes :
          LET r == RSASignatureContext_init(keys.priv.key_size, padding, algorithm)
          IN  /\ ctx' = r.ctx
              /\ last' = Call("signer", r.outcome, padding, algorithm,
                              keys.priv.key_size, FALSE, FALSE, FALSE, 0, TRUE,
                              FALSE)
    /\ UNCHANGED <<lib, keys, other>>

\* _RSAPublicKey.verifier on the first public key made of the private key
KeyVerifier ==
    /\ ctx.kind = "none"
    /\ last.op = "none"
    /\ keys.pubs # <<>>
    /\ keys.pubs[1].alive
    /\ \E padding \in SharedPaddings, algorithm \in SharedHashes,
          signature \in SharedSignatures :
          LET r == RSAVerificationContext_init(keys.pubs[1].key_size, signature,
                                               padding, algorithm)
          IN  /\ ctx' = r.ctx
              /\ last' = Call("verifier", r.outcome, padding, algorithm,
                              keys.pubs[1].key_size, FALSE, FALSE, FALSE, 0,
                              TRUE, FALSE)
    /\ UNCHANGED <<lib, keys, other>>

\* _RSAPublicKey.encrypt on the first public key made of the private key
KeyEncrypt ==
    /\ last.op = "none"
    /\ keys.pubs # <<>>
    /\ keys.pubs[1].alive
    /\ \E length \in {0, 118} :
          \E r \in RSAPublicKey_encrypt(keys.pubs[1].key_size, Plaintext(length),
                                        PKCS1v15) :
              last' = [Call("encrypt", r.outcome, PKCS1v15, "sha1",
                            keys.pubs[1].key_size, FALSE, FALSE, FALSE, 0, TRUE,
                            r.backend_called)
                       EXCEPT !.input = Plaintext(length),
                              !.returned = r.returned]
    /\ UNCHANGED <<lib, keys, ctx, other>>

\* _RSAPrivateKey.decrypt on the private key followed
KeyDecrypt ==
    /\ last.op = "none"
    /\ keys.priv.alive
    /\ \E ciphertext \in {c \in Ciphertexts :
              c.length \in {0, key_size_bytes(keys.priv.key_size)}} :
          \E r \in RSAPrivateKey_decrypt(keys.priv.key_size, ciphertext, PKCS1v15) :
              last' = [Call("decrypt", r.outcome, PKCS1v15, "sha1",
                            keys.priv.key_size, FALSE, FALSE, FALSE, 0,
                            ciphertext.length = key_size_bytes(keys.priv.key_size),
                            r.backend_called)
                       EXCEPT !.input = ciphertext, !.returned = r.returned]
    /\ UNCHANGED <<lib, keys, ctx, other>>

\* the caller sets the context in hand aside and takes up the other one
Switch ==
    /\ ctx.kind # "none" \/ other.kind # "none"
    /\ ctx' = other
    /\ other' = ctx
    /\ last' = NoCall
    /\ UNCHANGED <<lib, keys>>

Next ==
    Signer \/ Verifier \/ SignedVerifier \/ Update \/ Finalize \/ Verify
    \/ Discard

\* the life of a signature or verification context
Spec == Init /\ [][Next]_vars

NextSetup ==
    Signer \/ Verifier \/ Encrypt \/ Decrypt \/ DecryptEncrypted \/ Discard

\* the calls that set an operation up: signer(), verifier(), encrypt(), decrypt()
SpecSetup == Init /\ [][NextSetup]_vars

\* a private key
InitKeys ==
    /\ lib \in LibFlags
    /\ keys \in {NewPrivateKey(key_size, e) : key_size \in KeySizes, e \in Exponents}
    /\ ctx = NoCtx
    /\ other = NoCtx
    /\ last = NoCall

NextKeys == PublicKey \/ FreePrivateKey \/ FreePublicKey

\* the life of a private key and of the public keys made of it
SpecKeys == InitKeys /\ [][NextKeys]_vars

\* a private key and its public key
InitShared ==
    /\ lib \in LibFlags
    /\ keys \in {KeyPair(key_size, 65537) : key_size \in SharedKeySizes}
    /\ ctx = NoCtx
    /\ other = NoCtx
    /\ last = NoCall

NextShared ==
    KeySigner \/ KeyVerifier \/ KeyEncrypt \/ KeyDecrypt \/ Update \/ Finalize
    \/ Verify \/ Switch \/ Discard

\* two contexts made of one key, and encrypt() and decrypt() on that key
SpecShared == InitShared /\ [][NextShared]_vars

-----------------------------------------------------------------------------
(* Properties *)

LifecycleCalls == {"update", "finalize", "verify"}

\* the key-size check of the constructors
KeyTooSmall(key_size, algorithm) ==
    key_size_bytes(key_size) - digest_size(algorithm) - 2 < 0

\* the largest PSS salt the key and digest leave room for:
\* ceil((key_size - 1) / 8) - digest_size - 2, by the inequalities that define
\* the ceiling
IsMaxSalt(salt, key_size, algorithm) ==
    LET emlen == salt + digest_size(algorithm) + 2
    IN  /\ 8 * emlen >= key_size - 1
        /\ 8 * (emlen - 1) < key_size - 1

\* salt > ceil((key_size - 1) / 8) - digest_size - 2
ExceedsMaxSalt(salt, key_size, algorithm) ==
    8 * (salt + digest_size(algorithm) + 1) >= key_size - 1

\* the assertion of _get_rsa_pss_salt_length failed in the last call
SaltAssertionFailed == last.outcome = "AssertionError" /\ ~last.salt_known

\* C1: once finalize() or verify() has been called on a context, every later
\* update(), finalize() and verify() on it fails with AlreadyFinalized and
\* with nothing else.
C1_AlreadyFinalizedAfterCall ==
    (last.op \in LifecycleCalls /\ last.after_call)
        => last.outcome = "AlreadyFinalized"

\* C2: a finalize() or verify() call on an Active context leaves the hash
\* context finalized whatever its outcome.
C2_FinalizedOnEveryOutcome ==
    (last.op \in {"finalize", "verify"} /\ last.was_active)
        => ~ctx.hash_ctx.active

\* C3: every failing decrypt() of a ciphertext of key-size length, with a
\* padding decrypt() supports, reports 'Decryption failed.', whatever reason
\* the library gives for the failure.
C3_DecryptFailureUniform ==
    (last.op = "decrypt" /\ last.length_ok /\ last.backend_called
     /\ last.outcome # "Plaintext")
        => last.outcome = "DecryptionFailed"

\* C4: every failing verify() on an Active verification context raises
\* InvalidSignature and nothing else.
C4_VerifyFailureUniform ==
    (last.op = "verify" /\ last.was_active /\ last.outcome # "Verified")
        => last.outcome = "InvalidSignature"

\* C5 as stated: for PKCS1v15 and PSS alike, signer() and verifier() fail with
\* the key-too-small error exactly when key_size_bytes - digest_size - 2 < 0.
C5_KeyTooSmallEveryPadding ==
    (last.op \in {"signer", "verifier"} /\ last.padding.kind \in {"PKCS1v15", "PSS"})
        => (last.outcome = "DigestTooLarge"
              <=> KeyTooSmall(last.key_size, last.algorithm))

\* C5 as amended: for PSS with MGF1, signer() and verifier() fail with the
\* key-too-small error exactly when key_size_bytes - digest_size - 2 < 0, at
\* creation (no context exists, so no update() can be made), and no PSS
\* context reports it at finalize() or verify(); PKCS1v15 contexts are created
\* whatever the key size, and no other padding fails with that error.
C5_KeyTooSmallPSS ==
    /\ (last.op \in {"signer", "verifier"}) =>
          /\ (last.padding.kind = "PSS" /\ last.padding.mgf = "MGF1")
                => (last.outcome = "DigestTooLarge"
                      <=> KeyTooSmall(last.key_size, last.algorithm))
          /\ last.padding.kind = "PKCS1v15" => last.outcome = "Created"
          /\ last.outcome = "DigestTooLarge"
                => (last.padding.kind = "PSS" /\ ctx = NoCtx)
    /\ (ctx.kind # "none" /\ ctx.padding.kind = "PSS")
          => ~KeyTooSmall(ctx.key_size, ctx.algorithm)
    /\ (last.op \in {"finalize", "verify"} /\ last.padding.kind = "PSS")
          => last.outcome # "DigestTooLarge"

\* C5 witness: a PSS signer created exactly at the boundary
\* key_size_bytes - digest_size - 2 = 0
C5_Witness ==
    /\ last.op = "signer"
    /\ last.padding.kind = "PSS"
    /\ key_size_bytes(last.key_size) - digest_size(last.algorithm) - 2 = 0
    /\ last.outcome = "Created"
    /\ ctx.kind = "sign"

\* C6: for every PSS context created with the MaxLength salt policy, the salt
\* length resolved at finalize() or verify() is >= 0: the assertion of
\* _get_rsa_pss_salt_length never fails.
C6_MaxSaltNonNegative ==
    (last.op \in {"finalize", "verify"} /\ last.padding.kind = "PSS"
     /\ last.padding.salt_max)
        => /\ ~SaltAssertionFailed
           /\ last.salt_known => last.salt >= 0

\* C7: with the MaxLength policy the salt length _get_rsa_pss_salt_length
\* returns is ceil((key_size_bits - 1) / 8) - digest_size - 2: 222 for a
\* 2048-bit key with SHA-256 and 234 with SHA-1.
C7_MaxSaltLength ==
    (last.op \in {"finalize", "verify"} /\ last.padding.kind = "PSS"
     /\ last.padding.salt_max /\ last.salt_known)
        => /\ IsMaxSalt(last.salt, last.key_size, last.algorithm)
           /\ (last.key_size = 2048 /\ last.algorithm = "sha256") => last.salt = 222
           /\ (last.key_size = 2048 /\ last.algorithm = "sha1") => last.salt = 234

\* C7 witness: finalize() of a MaxLength PSS signer with a 2048-bit key and
\* SHA-256 resolved the salt length 222
C7_Witness ==
    /\ last.op = "finalize"
    /\ last.padding.kind = "PSS"
    /\ last.padding.salt_max
    /\ last.key_size = 2048
    /\ last.algorithm = "sha256"
    /\ last.salt_known
    /\ last.salt = 222
    /\ last.outcome = "Signature"

\* C8: with a fixed salt length the given value is what finalize() and
\* verify() use, and a sign finalize() on an Active context with a fixed salt
\* length above ceil((key_size_bits - 1) / 8) - digest_size - 2 fails with the
\* salt-too-long error, on the pkey_ctx and on the legacy path.
C8_FixedSaltBounded ==
    (last.op \in {"finalize", "verify"} /\ last.padding.kind = "PSS"
     /\ ~last.padding.salt_max)
        => /\ last.salt_known => last.salt = last.padding.salt_length
           /\ (last.op = "finalize" /\ last.was_active
               /\ ExceedsMaxSalt(last.padding.salt_length, last.key_size,
                                 last.algorithm))
                 => last.outcome = "SaltTooLong"

\* C8 witness: finalize() of a signer with the fixed salt length 223, one more
\* than a 2048-bit key and SHA-256 leave room for, failed with salt-too-long
C8_Witness ==
    /\ last.op = "finalize"
    /\ last.padding.kind = "PSS"
    /\ ~last.padding.salt_max
    /\ last.padding.salt_length = 223
    /\ last.key_size = 2048
    /\ last.algorithm = "sha256"
    /\ last.was_active
    /\ last.outcome = "SaltTooLong"

SetupCalls == {"signer", "verifier", "encrypt", "decrypt"}

\* the padding kinds the last call supports
SupportedKinds ==
    IF last.op \in {"signer", "verifier"}
    THEN {"PKCS1v15", "PSS"}
    ELSE {"PKCS1v15", "OAEP"}

\* the last call did not get past its set-up: no context and so no hash
\* context was created, and the library was not asked to transform data
FailedAtSetup == ctx = NoCtx /\ ~last.backend_called

\* C9 as stated: an AsymmetricPadding outside the combinations the operation
\* supports fails with UnsupportedPadding at set-up, for signer(), verifier(),
\* encrypt() and decrypt().
C9_UnsupportedPaddingAlways ==
    (last.op \in SetupCalls /\ IsAsymmetricPadding(last.padding)
     /\ last.padding.kind \notin SupportedKinds)
        => (last.outcome = "UnsupportedPadding" /\ FailedAtSetup)

\* C9 as amended: signer() and verifier() accept only PKCS1v15 and PSS,
\* encrypt() and decrypt() only PKCS1v15 and OAEP; any other AsymmetricPadding
\* fails with UnsupportedPadding at set-up, in decrypt() when the ciphertext
\* has the length of the key (a ciphertext of another length fails with the
\* length error first); a value that is no AsymmetricPadding fails with
\* TypeError instead.
C9_UnsupportedPadding ==
    last.op \in SetupCalls =>
        IF last.op = "decrypt" /\ ~last.length_ok
        THEN last.outcome = "CiphertextLength" /\ FailedAtSetup
        ELSE /\ (IsAsymmetricPadding(last.padding)
                 /\ last.padding.kind \notin SupportedKinds)
                   => (last.outcome = "UnsupportedPadding" /\ FailedAtSetup)
             /\ ~IsAsymmetricPadding(last.padding)
                   => (last.outcome = "TypeError" /\ FailedAtSetup)
             /\ last.padding.kind \in SupportedKinds
                   => last.outcome # "UnsupportedPadding"

\* C9 witness: decrypt() of a ciphertext of key-size length with PSS padding
\* failed with UnsupportedPadding
C9_Witness ==
    /\ last.op = "decrypt"
    /\ last.length_ok
    /\ last.padding.kind = "PSS"
    /\ last.outcome = "UnsupportedPadding"
    /\ ~last.backend_called

\* the MGF1 inner hash and the OAEP hash are ones the last call supports
InnerHashSupported ==
    IF last.padding.kind = "PSS"
    THEN mgf1_hash_supported(last.padding.mgf_algorithm)
    ELSE last.padding.mgf_algorithm = "sha1"

OAEPHashSupported == last.padding.kind = "OAEP" => last.padding.algorithm = "sha1"

\* the last call is signer() or verifier() with PSS, or encrypt() or
\* decrypt() with OAEP
MGFCall ==
    \/ last.op \in {"signer", "verifier"} /\ last.padding.kind = "PSS"
    \/ last.op \in {"encrypt", "decrypt"} /\ last.padding.kind = "OAEP"

\* C10 as stated: for OAEP and PSS an MGF that is not MGF1 fails with
\* UnsupportedMaskGenerationFunction, an MGF1 inner hash or OAEP hash that is
\* not supported fails with UnsupportedHash, both at set-up, and a supported
\* one is accepted.
C10_MGFChecksAlways ==
    MGFCall =>
        /\ last.padding.mgf # "MGF1"
              => (last.outcome = "UnsupportedMGF" /\ FailedAtSetup)
        /\ (last.padding.mgf = "MGF1"
            /\ ~(InnerHashSupported /\ OAEPHashSupported))
              => (last.outcome = "UnsupportedHash" /\ FailedAtSetup)
        /\ (last.padding.mgf = "MGF1" /\ InnerHashSupported /\ OAEPHashSupported)
              => last.outcome \notin {"UnsupportedMGF", "UnsupportedHash"}

\* C10 as amended: as stated, unless a check made earlier in the set-up fails
\* first: the ciphertext-length check of decrypt(), which precedes all of
\* them; for PSS the key-too-small check, which precedes the check of the
\* MGF1 inner hash; for OAEP the check for a non-empty label, which precedes
\* the check of the OAEP hash (but not the one of the MGF1 inner hash).
C10_MGFChecks ==
    MGFCall =>
        IF last.op = "decrypt" /\ ~last.length_ok
        THEN last.outcome = "CiphertextLength" /\ FailedAtSetup
        ELSE /\ last.padding.mgf # "MGF1"
                   => (last.outcome = "UnsupportedMGF" /\ FailedAtSetup)
             /\ (last.padding.mgf = "MGF1" /\ ~InnerHashSupported)
                   => IF last.padding.kind = "PSS"
                         /\ KeyTooSmall(last.key_size, last.algorithm)
                      THEN last.outcome = "DigestTooLarge" /\ FailedAtSetup
                      ELSE last.outcome = "UnsupportedHash" /\ FailedAtSetup
             /\ (last.padding.mgf = "MGF1" /\ InnerHashSupported
                 /\ ~OAEPHashSupported)
                   => IF last.padding.label = "nonempty"
                      THEN last.outcome = "LabelNotSupported" /\ FailedAtSetup
                      ELSE last.outcome = "UnsupportedHash" /\ FailedAtSetup
             /\ (last.padding.mgf = "MGF1" /\ InnerHashSupported
                 /\ OAEPHashSupported)
                   => last.outcome \notin {"UnsupportedMGF", "UnsupportedHash"}

\* C10 witness: encrypt() with OAEP and an MGF that is not MGF1 failed with
\* UnsupportedMaskGenerationFunction before the library was called
C10_Witness ==
    /\ last.op = "encrypt"
    /\ last.padding.kind = "OAEP"
    /\ last.padding.mgf # "MGF1"
    /\ last.outcome = "UnsupportedMGF"
    /\ ~last.backend_called

\* the last call is encrypt() or decrypt() with OAEP padding
OAEPCall == last.op \in {"encrypt", "decrypt"} /\ last.padding.kind = "OAEP"

\* C11 as stated: encrypt() and decrypt() with OAEP padding that carries a
\* non-empty label fail with the label-not-supported error, and a label that
\* is None or empty is accepted.
C11_LabelRejectedAlways ==
    OAEPCall =>
        /\ last.padding.label = "nonempty"
              => last.outcome = "LabelNotSupported"
        /\ last.padding.label \in {"None", "empty"}
              => last.outcome # "LabelNotSupported"

\* C11 as amended: as stated, at set-up, when the checks made before the
\* label check pass: the ciphertext-length check of decrypt(), the check
\* that the MGF is MGF1 and the check that the MGF1 inner hash is SHA-1; when
\* one of them fails its error is raised whatever the label. A label that is
\* None or empty never fails with the label-not-supported error.
C11_LabelRejected ==
    OAEPCall =>
        /\ last.padding.label = "nonempty" =>
              IF last.op = "decrypt" /\ ~last.length_ok
              THEN last.outcome = "CiphertextLength" /\ FailedAtSetup
              ELSE IF last.padding.mgf # "MGF1"
              THEN last.outcome = "UnsupportedMGF" /\ FailedAtSetup
              ELSE IF last.padding.mgf_algorithm # "sha1"
              THEN last.outcome = "UnsupportedHash" /\ FailedAtSetup
              ELSE last.outcome = "LabelNotSupported" /\ FailedAtSetup
        /\ last.padding.label \in {"None", "empty"}
              => last.outcome # "LabelNotSupported"

\* C11 witness: decrypt() of a ciphertext of key-size length with OAEP,
\* MGF1 with SHA-1 and a non-empty label failed with the label-not-supported
\* error before the library was called
C11_Witness ==
    /\ last.op = "decrypt"
    /\ last.length_ok
    /\ last.padding.kind = "OAEP"
    /\ last.padding.label = "nonempty"
    /\ last.outcome = "LabelNotSupported"
    /\ ~last.backend_called

\* C13: decrypt() of the ciphertext that encrypt() of the matching public key
\* returned for a plaintext, with the padding it was encrypted with (PKCS1v15
\* or OAEP), returns exactly that plaintext.
C13_DecryptInvertsEncrypt ==
    (last.op = "decrypt" /\ last.input \notin Ciphertexts)
        => /\ last.outcome = "Plaintext"
           /\ last.returned = last.input.plaintext

\* C13 witness: the empty plaintext came back from decrypt() of its OAEP
\* encryption
C13_Witness ==
    /\ last.op = "decrypt"
    /\ last.input.kind = "encrypted"
    /\ last.padding.kind = "OAEP"
    /\ last.input.plaintext = Plaintext(0)
    /\ last.outcome = "Plaintext"
    /\ last.returned = Plaintext(0)

\* the plaintext of the last encrypt() is longer than its padding takes:
\* key_size_bytes - 11 for PKCS1v15, key_size_bytes - 2 * hash_size - 2 for
\* OAEP
ExceedsPaddingBound ==
    IF last.padding.kind = "PKCS1v15"
    THEN last.input.length > key_size_bytes(last.key_size) - 11
    ELSE last.input.length > key_size_bytes(last.key_size)
                                - 2 * digest_size(last.padding.algorithm) - 2

\* C14: encrypt() with a padding it supports (PKCS1v15, or OAEP with MGF1 and
\* SHA-1) fails with the data-too-long error exactly when the plaintext
\* exceeds the bound of the padding, and returns a ciphertext otherwise.
C14_MessageTooLong ==
    (last.op = "encrypt" /\ last.backend_called)
        => /\ last.padding.kind \in {"PKCS1v15", "OAEP"}
           /\ ExceedsPaddingBound => last.outcome = "DataTooLong"
           /\ ~ExceedsPaddingBound => last.outcome = "Ciphertext"

\* C14 witness: with OAEP, SHA-1 and a 1024-bit key a plaintext of 87 bytes
\* failed with the data-too-long error
C14_Witness ==
    /\ last.op = "encrypt"
    /\ last.key_size = 1024
    /\ last.padding.kind = "OAEP"
    /\ last.padding.algorithm = "sha1"
    /\ last.input.length = 87
    /\ last.outcome = "DataTooLong"

\* C15: decrypt() of a ciphertext of key-size length whose value is not
\* below the modulus, with a padding decrypt() supports, fails with the
\* data-too-large error.
C15_DataTooLarge ==
    (last.op = "decrypt" /\ last.length_ok /\ last.backend_called
     /\ last.input.kind = "toolarge")
        => last.outcome = "DataTooLarge"

\* C12: a verification context of the matching public key, made with the
\* signature finalize() returned and with the padding and hash of the signer,
\* and fed the data the signer was fed, completes verify() without raising
\* (unless the library itself fails), for every key size, hash, padding and
\* sequence of update() calls that yields a signature.
C12_SignVerifyRoundTrip ==
    (last.op = "verify" /\ last.was_active /\ ~last.fault
     /\ ctx.signature.kind = "signed"
     /\ ctx.signature.msg = ctx.hash_ctx.data)
        => last.outcome = "Verified"

\* C12 witness: on a 521-bit key a PSS signature with SHA-256 and the
\* maximum salt length, made of a message fed in two update() calls, verified
C12_Witness ==
    /\ last.op = "verify"
    /\ last.outcome = "Verified"
    /\ ctx.signature.kind = "signed"
    /\ ctx.signature.msg = <<1, 2>>
    /\ ctx.key_size = 521
    /\ ctx.padding.kind = "PSS"
    /\ ctx.padding.salt_max
    /\ ctx.algorithm = "sha256"

\* the candidate signature of the context is one the private key made of
\* the data the context hashed
ValidSignature ==
    /\ ctx.signature.kind \in {"good", "signed"}
    /\ ctx.signature.msg = ctx.hash_ctx.data

\* C18: verify() returns normally only when the library reported the
\* signature valid: when the library failed (a negative result), when the
\* signature is not a valid one of the data hashed (a result of zero), or
\* when it does not decrypt to a block of key-size length, verify() raises.
C18_VerifiedOnlyIfValid ==
    last.op = "verify" =>
        /\ last.outcome = "Verified"
              => (~last.fault /\ last.was_active /\ ValidSignature)
        /\ (last.fault \/ ~ValidSignature)
              => last.outcome \in {"InvalidSignature", "AssertionError",
                                   "AlreadyFinalized"}

\* C18 witness: the library failed in verify() of a valid PKCS1v15
\* signature, and verify() raised
C18_Witness ==
    /\ last.op = "verify"
    /\ last.fault
    /\ last.was_active
    /\ ValidSignature
    /\ ctx.padding.kind = "PKCS1v15"
    /\ last.outcome = "AssertionError"

\* C19: a context starts with nothing hashed; update(data) on an Active
\* context does not fail, leaves it Active and appends data to what it has
\* hashed, changing nothing else; the signature finalize() returns is one of
\* the concatenation of the update() arguments, and verify() accepts only a
\* signature of that concatenation.
C19_UpdateAppends ==
    [][/\ (last'.op \in {"signer", "verifier"} /\ last'.outcome = "Created")
             => ctx'.hash_ctx = NewHash
       /\ (last'.op = "update" /\ ctx.hash_ctx.active)
             => /\ last'.outcome = "Updated"
                /\ ctx' = [ctx EXCEPT !.hash_ctx.data = @ \o last'.input.msg]
       /\ (last'.op = "finalize" /\ last'.outcome = "Signature")
             => last'.returned.msg = ctx.hash_ctx.data
       /\ (last'.op = "verify" /\ last'.outcome = "Verified")
             => ctx.signature.msg = ctx.hash_ctx.data]_vars

\* C19 witness: the second of two update() calls with one byte each left an
\* Active context that has hashed both bytes in order
C19_Witness ==
    /\ last.op = "update"
    /\ last.outcome = "Updated"
    /\ last.input.msg = <<2>>
    /\ ctx.hash_ctx.active
    /\ ctx.hash_ctx.data = <<1, 2>>

\* the class of an outcome: the two ValueErrors of finalize() are one class
OutcomeClass(outcome) ==
    IF outcome \in {"DigestTooLarge", "SaltTooLong"} THEN "ValueError" ELSE outcome

\* two results have the same outcome class and leave the context in the
\* same lifecycle state
SameOutcome(a, b) ==
    /\ OutcomeClass(a.outcome) = OutcomeClass(b.outcome)
    /\ a.hash_ctx.active = b.hash_ctx.active

\* C20: from every state of a context the pkey_ctx method and the legacy
\* method of its padding, given the same verdict of the library, end in the
\* same outcome class and leave the context in the same lifecycle state.
C20_PathsEquivalent ==
    /\ ctx.kind = "sign" =>
          SameOutcome(_finalize_pkey_ctx(ctx),
                      IF ctx.padding.kind = "PKCS1v15"
                      THEN _finalize_pkcs1(ctx)
                      ELSE _finalize_pss(ctx))
    /\ ctx.kind = "verify" =>
          \A fault \in BOOLEAN :
              SameOutcome(_verify_pkey_ctx(ctx, fault),
                          IF ctx.padding.kind = "PKCS1v15"
                          THEN _verify_pkcs1(ctx, fault)
                          ELSE _verify_pss(ctx, fault))

\* C16: no update(), finalize(), verify(), encrypt() or decrypt(), in any
\* interleaving on the contexts of one key, changes the key objects or the
\* big numbers they own; a call on the context in hand leaves the context
\* set aside as it is, and what finalize(), verify() and update() do depends
\* on the context they are called on alone.
C16_KeysImmutableContextsIndependent ==
    [][/\ keys' = keys
       /\ other' = other \/ (other' = ctx /\ ctx' = other)
       /\ last'.op = "finalize" =>
             LET r == RSASignatureContext_finalize(ctx)
             IN  last'.outcome = r.outcome /\ ctx'.hash_ctx = r.hash_ctx
       /\ last'.op = "verify" =>
             LET r == RSAVerificationContext_verify(ctx, last'.fault)
             IN  last'.outcome = r.outcome /\ ctx'.hash_ctx = r.hash_ctx
       /\ last'.op = "update" =>
             LET r == Hash_update(ctx.hash_ctx, last'.input.msg)
             IN  last'.outcome = r.outcome /\ ctx'.hash_ctx = r.hash_ctx]_vars

\* C16 witness: finalize() on one signer of the key returned a signature
\* while a verifier of the same key, set aside with data hashed, is Active
C16_Witness ==
    /\ last.op = "finalize"
    /\ last.outcome = "Signature"
    /\ other.kind = "verify"
    /\ other.hash_ctx.active
    /\ other.hash_ctx.data # <<>>
    /\ keys.priv.alive
    /\ keys.priv.key_size = ctx.key_size
    /\ keys.pubs[1].key_size = other.key_size

\* the big number at an address is allocated and has the value given
Holds(address, number) ==
    /\ keys.heap[address].live
    /\ keys.heap[address].number = number

\* C17: every public key public_key() returned owns big numbers of its own
\* for the modulus and the exponent, with the values the private key had at
\* the call: they are no big numbers of the private key or of another public
\* key, and they stay allocated and keep their values when the private key
\* or another public key is destroyed.
C17_PublicKeyIsCopy ==
    \A i \in DOMAIN keys.pubs :
        LET pub == keys.pubs[i]
        IN  pub.alive =>
              /\ Holds(pub.n, pub.numbers.n)
              /\ Holds(pub.e, pub.numbers.e)
              /\ pub.n # pub.e
              /\ pub.key_size = BN_num_bits(pub.numbers.n)
              /\ keys.priv.alive =>
                    /\ {pub.n, pub.e} \cap {keys.priv.n, keys.priv.e} = {}
                    /\ pub.numbers = keys.priv.numbers
              /\ \A j \in DOMAIN keys.pubs :
                    (j # i /\ keys.pubs[j].alive) =>
                        /\ {pub.n, pub.e} \cap {keys.pubs[j].n, keys.pubs[j].e} = {}
                        /\ pub.numbers = keys.pubs[j].numbers

\* C17 witness: two public keys were made of the private key, and the second
\* is in use after the private key and the first one were destroyed
C17_Witness ==
    /\ ~keys.priv.alive
    /\ Len(keys.pubs) = 2
    /\ ~keys.pubs[1].alive
    /\ keys.pubs[2].alive
    /\ Holds(keys.pubs[2].n, Modulus(2048))

\* the ciphertext of the last decrypt() has ceil(key_size / 8) bytes, by the
\* inequalities that define the ceiling
KeySizeLength ==
    /\ 8 * last.input.length >= last.key_size
    /\ 8 * (last.input.length - 1) < last.key_size

\* the padding of the last call passed every padding check of decrypt()
ValidatedPadding ==
    \/ last.padding.kind = "PKCS1v15"
    \/ /\ last.padding.kind = "OAEP"
       /\ last.padding.mgf = "MGF1"
       /\ last.padding.mgf_algorithm = "sha1"
       /\ last.padding.label \in {"None", "empty"}
       /\ last.padding.algorithm = "sha1"

\* C21: decrypt() of a ciphertext whose length is not ceil(key_size / 8)
\* fails with the ciphertext-length error whatever the padding argument is,
\* and without calling the library; a ciphertext of that length never fails
\* with it; and the library is called only with a ciphertext of that length
\* and a padding that passed the padding checks.
C21_LengthCheckedFirst ==
    last.op = "decrypt" =>
        /\ ~KeySizeLength
              => (last.outcome = "CiphertextLength" /\ ~last.backend_called)
        /\ KeySizeLength => last.outcome # "CiphertextLength"
        /\ last.backend_called => (KeySizeLength /\ ValidatedPadding)

\* C21 witness: decrypt() of a ciphertext of 65 bytes on a 521-bit key, with
\* a padding argument that is no padding at all, failed with the
\* ciphertext-length error before the library was called
C21_Witness ==
    /\ last.op = "decrypt"
    /\ last.key_size = 521
    /\ last.input.length = 65
    /\ ~IsAsymmetricPadding(last.padding)
    /\ last.outcome = "CiphertextLength"
    /\ ~last.backend_called

====
